---- MODULE Spec2Model ----
(***************************************************************************)
(* Model of the flipkard-panel product scraper: the scrape route of the    *)
(* backend (text normalizers, field and image extraction) and the product  *)
(* form of the panel (price slabs, auto-fill), and the catalog of App with  *)
(* its persistence, import and export.                                     *)
(*                                                                         *)
(* Texts are TLA+ strings, read as sequences of characters.  A JavaScript  *)
(* value that may be null is a record [type, val].                         *)
(***************************************************************************)
EXTENDS Integers, Sequences, FiniteSets, TLC

VARIABLES
    fn,                \* the function applied last ("" before any call)
    arg,               \* the argument of the call
    ret,               \* the value the call returned
    doc,               \* the parsed document handed to the scraper
    scrapedData,       \* what scrapeFlipkartProduct returned
    request,           \* the URL of the scrape request in flight ("" if none)
    response,          \* the answer of POST /api/scrape-product
    productUrl,        \* ProductForm state: the URL input
    formData,          \* ProductForm state: the form fields
    isScrapingLoading, \* ProductForm state
    scrapingError,     \* ProductForm state
    products,          \* App state: the catalog
    editingProduct,    \* App state: the product being edited (NoProduct if none)
    selectedCategory,  \* App state ("" before a category is selected)
    showForm,          \* App state: the product form is mounted
    now,               \* Date.now(), as the count of submits so far
    isLoaded,          \* App state: the load effect has run
    localStorage,      \* the item stored under STORAGE_KEY
    download           \* the file the last step wrote (NoFile if none)

vars == <<fn, arg, ret, doc, scrapedData, request, response,
          productUrl, formData, isScrapingLoading, scrapingError,
          products, editingProduct, selectedCategory, showForm, now,
          isLoaded, localStorage, download>>

callVars == <<fn, arg, ret>>
scrapeVars == <<doc, scrapedData>>
formVars == <<request, response, productUrl, formData, isScrapingLoading, scrapingError>>
fillVars == <<request, response, productUrl, isScrapingLoading, scrapingError>>
appVars == <<products, editingProduct, selectedCategory, showForm, now,
             isLoaded, localStorage, download>>

(***************************************************************************)
(* Bounds                                                                  *)
(***************************************************************************)
MaxOver == 3        \* how many prices above the last slab ceiling are tried
MaxTextLen == 3     \* length of the enumerated numeric texts
MaxNameLen == 4     \* length of the enumerated product names

(***************************************************************************)
(* JavaScript values                                                       *)
(***************************************************************************)
Null == [type |-> "null", val |-> 0]
Num(n) == [type |-> "number", val |-> n]

\* a decimal number m / 10^e; normal form: e = 0 or m is no multiple of 10
Dec(m, e) == [m |-> m, e |-> e]

\* the values of the state before the document is loaded, the scrape has run
\* and the route has answered
NoDoc == [none |-> TRUE]
NoData == [none |-> TRUE]
NoProduct == [none |-> TRUE]
NoResponse == [status |-> 0, json |-> FALSE, error |-> "", data |-> NoData]

\* localStorage.getItem(STORAGE_KEY): null, a text that is not JSON, or
\* the JSON text of an object with a products member (an array or not)
\* and a selectedCategory member
NoItem == [item |-> "null"]
NotJson == [item |-> "text"]
Json(isArray, list, category) ==
    [item |-> "json", isArray |-> isArray, products |-> list,
     selectedCategory |-> category]

\* JSON.stringify({ products, selectedCategory })
Stored(list, category) == Json(TRUE, list, category)

\* no file was written
NoFile == [name |-> "", products |-> <<>>]

(***************************************************************************)
(* Characters and strings                                                  *)
(***************************************************************************)
Ch(s, i) == SubSeq(s, i, i)

Digits == {"0", "1", "2", "3", "4", "5", "6", "7", "8", "9"}

IsDigit(c) == c \in Digits

DigitVal(c) ==
    CASE c = "0" -> 0 [] c = "1" -> 1 [] c = "2" -> 2 [] c = "3" -> 3
      [] c = "4" -> 4 [] c = "5" -> 5 [] c = "6" -> 6 [] c = "7" -> 7
      [] c = "8" -> 8 [] c = "9" -> 9

DigitChar(d) ==
    CASE d = 0 -> "0" [] d = 1 -> "1" [] d = 2 -> "2" [] d = 3 -> "3"
      [] d = 4 -> "4" [] d = 5 -> "5" [] d = 6 -> "6" [] d = 7 -> "7"
      [] d = 8 -> "8" [] d = 9 -> "9"

\* the characters \s matches and trim() removes (those a TLA+ string can hold)
Whitespace == {" ", "\t", "\n", "\r", "\f"}

\* String.prototype.trim
RECURSIVE trimStart(_)
trimStart(s) ==
    IF Len(s) > 0 /\ Ch(s, 1) \in Whitespace THEN trimStart(SubSeq(s, 2, Len(s)))
    ELSE s

RECURSIVE trimEnd(_)
trimEnd(s) ==
    IF Len(s) > 0 /\ Ch(s, Len(s)) \in Whitespace
    THEN trimEnd(SubSeq(s, 1, Len(s) - 1))
    ELSE s

trim(s) == trimEnd(trimStart(s))

\* parseInt of a non-empty run of digits
RECURSIVE parseInt(_)
parseInt(s) ==
    IF Len(s) = 0 THEN 0
    ELSE 10 * parseInt(SubSeq(s, 1, Len(s) - 1)) + DigitVal(Ch(s, Len(s)))

\* Number.prototype.toString of a non-negative integer
RECURSIVE toString(_)
toString(n) ==
    IF n < 10 THEN DigitChar(n)
    ELSE toString(n \div 10) \o DigitChar(n % 10)

\* s.replace(/[class]/g, ''): s without the characters of class
RECURSIVE RemoveChars(_, _)
RemoveChars(s, class) ==
    IF Len(s) = 0 THEN ""
    ELSE (IF Ch(s, 1) \in class THEN "" ELSE Ch(s, 1))
             \o RemoveChars(SubSeq(s, 2, Len(s)), class)

\* the end of the maximal run of digits that starts at position i (i - 1 if none)
RECURSIVE DigitRunEnd(_, _)
DigitRunEnd(s, i) ==
    IF i <= Len(s) /\ IsDigit(Ch(s, i)) THEN DigitRunEnd(s, i + 1) ELSE i - 1

\* the first position at or after i that holds a digit (0 if none)
RECURSIVE FirstDigitFrom(_, _)
FirstDigitFrom(s, i) ==
    IF i > Len(s) THEN 0
    ELSE IF IsDigit(Ch(s, i)) THEN i
    ELSE FirstDigitFrom(s, i + 1)

\* s.match(/\d+/): the matched text, "" for no match
MatchDigits(s) ==
    LET i == FirstDigitFrom(s, 1)
    IN  IF i = 0 THEN "" ELSE SubSeq(s, i, DigitRunEnd(s, i))

(***************************************************************************)
(* Price slabs (ProductForm)                                               *)
(***************************************************************************)
slabs == <<
    <<20000, 199>>, <<25000, 249>>, <<30000, 299>>, <<35000, 319>>,
    <<40000, 339>>, <<45000, 359>>, <<50000, 379>>, <<55000, 399>>,
    <<60000, 419>>, <<65000, 439>>, <<70000, 459>>, <<75000, 479>>,
    <<80000, 499>>, <<85000, 519>>, <<90000, 539>>, <<95000, 559>>,
    <<100000, 579>>, <<105000, 599>>, <<110000, 619>>, <<115000, 639>>,
    <<120000, 659>>, <<125000, 679>>, <<130000, 699>> >>

\* the loop of getMRP from entry i on
RECURSIVE getMRPFrom(_, _)
getMRPFrom(price, i) ==
    IF i > Len(slabs) THEN Null
    ELSE IF price <= slabs[i][1] THEN Num(slabs[i][2])
    ELSE getMRPFrom(price, i + 1)

\* a resolver that compares with < where the code compares with <=
getMRPStrict(price) == getMRPFrom(price + 1, 1)

getMRP(price) == getMRPFrom(price, 1)

\* the prices the resolver is called with: around every ceiling, the
\* spec's example, and MaxOver prices above the last ceiling
PriceInputs ==
    {0, 1, 24900}
        \cup {slabs[i][1] + d : i \in 1..Len(slabs), d \in {-1, 0, 1}}
        \cup {slabs[Len(slabs)][1] + k * (slabs[2][1] - slabs[1][1]) : k \in 1..MaxOver}

(***************************************************************************)
(* Text normalizers of the scrape route                                    *)
(***************************************************************************)
NotFound == "Not found"

\* Stand-ins for the characters a module cannot spell: the rupee sign
\* U+20B9, and the three characters the class in parsePrice is written with
\* in the file (U+201A, U+00C7, U+03C0).
Rupee == "$"
ClassChars == {"~", "^", "|"}

\* the character class of the replace in parsePrice, as the file spells it:
\* U+201A, U+00C7, U+03C0, the comma and \s; the rupee sign is no member
PriceNoiseNoComma == ClassChars \cup Whitespace

PriceNoise == ClassChars \cup {","} \cup Whitespace

\* a parsePrice that answers NaN (here -1) when no digit run is found
parsePriceNaN(priceString) ==
    IF priceString = "" \/ priceString = NotFound THEN 0
    ELSE LET cleanPrice == RemoveChars(priceString, PriceNoise)
             priceMatch == MatchDigits(cleanPrice)
         IN  IF priceMatch # "" THEN parseInt(priceMatch) ELSE -1

parsePrice(priceString) ==
    IF priceString = "" \/ priceString = NotFound THEN 0
    ELSE LET cleanPrice == RemoveChars(priceString, PriceNoise)
             priceMatch == MatchDigits(cleanPrice)
         IN  IF priceMatch # "" THEN parseInt(priceMatch) ELSE 0

\* m / 10^e in normal form
RECURSIVE NormDec(_, _)
NormDec(m, e) ==
    IF e > 0 /\ m % 10 = 0 THEN NormDec(m \div 10, e - 1) ELSE Dec(m, e)

\* parseFloat of a text of the shape digits, digits. or digits.digits
parseFloat(s) ==
    LET intEnd == DigitRunEnd(s, 1)
        frac == IF intEnd + 1 < Len(s) THEN SubSeq(s, intEnd + 2, Len(s)) ELSE ""
    IN  NormDec(parseInt(SubSeq(s, 1, intEnd) \o frac), Len(frac))

\* s.match(/(\d+\.?\d*)/): group 1, "" for no match
MatchDecimal(s) ==
    LET i == FirstDigitFrom(s, 1)
        j == DigitRunEnd(s, i)
        k == IF j < Len(s) /\ Ch(s, j + 1) = "." THEN DigitRunEnd(s, j + 2) ELSE j
    IN  IF i = 0 THEN "" ELSE SubSeq(s, i, k)

\* a parseRating whose default is 0
parseRatingZero(ratingString) ==
    IF ratingString = "" \/ ratingString = NotFound THEN Dec(0, 0)
    ELSE LET ratingMatch == MatchDecimal(ratingString)
         IN  IF ratingMatch # "" THEN parseFloat(ratingMatch) ELSE Dec(0, 0)

parseRating(ratingString) ==
    IF ratingString = "" \/ ratingString = NotFound THEN Dec(4, 0)
    ELSE LET ratingMatch == MatchDecimal(ratingString)
         IN  IF ratingMatch # "" THEN parseFloat(ratingMatch) ELSE Dec(4, 0)

\* a parseReviewsCount that keeps the commas
parseReviewsCountKeep(reviewsString) ==
    IF reviewsString = "" \/ reviewsString = NotFound THEN 1000
    ELSE LET reviewsMatch == MatchDigits(reviewsString)
         IN  IF reviewsMatch # "" THEN parseInt(reviewsMatch) ELSE 1000

parseReviewsCount(reviewsString) ==
    IF reviewsString = "" \/ reviewsString = NotFound THEN 1000
    ELSE LET cleanReviews == RemoveChars(reviewsString, {","})
             reviewsMatch == MatchDigits(cleanReviews)
         IN  IF reviewsMatch # "" THEN parseInt(reviewsMatch) ELSE 1000

(***************************************************************************)
(* extractBrand                                                            *)
(***************************************************************************)
commonBrands == <<
    "Apple", "Samsung", "OnePlus", "Xiaomi", "Realme", "Oppo", "Vivo", "Google", "Motorola",
    "Nokia", "Huawei", "Honor", "POCO", "Redmi", "Nothing", "Asus", "Sony", "LG",
    "Nike", "Adidas", "Puma", "Reebok", "New Balance", "Converse", "Vans",
    "Zara", "H&M", "Uniqlo", "Forever 21", "Gap", "Levi's", "Calvin Klein",
    "Canon", "Nikon", "Sony", "Panasonic", "Fujifilm", "Olympus",
    "Dell", "HP", "Lenovo", "Asus", "Acer", "MSI", "MacBook", "iMac", "boAt",
    "JBL", "Bose", "Sennheiser", "Skullcandy", "Marshall" >>

LowerCase == "abcdefghijklmnopqrstuvwxyz"
UpperCase == "ABCDEFGHIJKLMNOPQRSTUVWXYZ"

LowerChars == {Ch(LowerCase, i) : i \in 1..26}
UpperOf ==
    [c \in LowerChars |-> Ch(UpperCase, CHOOSE i \in 1..26 : Ch(LowerCase, i) = c)]

UpperCh(c) == IF c \in LowerChars THEN UpperOf[c] ELSE c

RECURSIVE toUpperCase(_)
toUpperCase(s) ==
    IF Len(s) = 0 THEN ""
    ELSE UpperCh(Ch(s, 1)) \o toUpperCase(SubSeq(s, 2, Len(s)))

\* s.includes(sub)
includes(s, sub) ==
    \E i \in 1..(Len(s) - Len(sub) + 1) : SubSeq(s, i, i + Len(sub) - 1) = sub

\* s.split(' ')[0]: the text before the first space (all of s if it has none)
RECURSIVE SplitSpaceFirst(_)
SplitSpaceFirst(s) ==
    IF Len(s) = 0 \/ Ch(s, 1) = " " THEN ""
    ELSE Ch(s, 1) \o SplitSpaceFirst(SubSeq(s, 2, Len(s)))

\* brand.toUpperCase() of every entry of commonBrands
upperBrands == [i \in 1..Len(commonBrands) |-> toUpperCase(commonBrands[i])]

\* the loop of extractBrand over commonBrands from entry i on ("" if none)
RECURSIVE BrandFrom(_, _)
BrandFrom(upperName, i) ==
    IF i > Len(commonBrands) THEN ""
    ELSE IF includes(upperName, upperBrands[i]) THEN commonBrands[i]
    ELSE BrandFrom(upperName, i + 1)

extractBrand(productName) ==
    IF productName = "" THEN "Unknown"
    ELSE LET upperName == toUpperCase(productName)
             brand == BrandFrom(upperName, 1)
             firstWord == SplitSpaceFirst(productName)
         IN  IF brand # "" THEN brand
             ELSE IF firstWord # "" THEN firstWord
             ELSE "Unknown"

(***************************************************************************)
(* The texts the normalizers are applied to                                *)
(***************************************************************************)
RECURSIVE Strs(_, _)
Strs(alphabet, n) ==
    IF n = 0 THEN {""}
    ELSE LET S == Strs(alphabet, n - 1)
         IN  S \cup {s \o c : s \in S, c \in alphabet}

NumAlphabet == {"0", "4", "5", ",", ".", " ", "x", "~", Rupee}
NameAlphabet == {"l", "G", "h", "P", " ", "\t", "x"}

ExampleTexts ==
    {NotFound, "$24,999", "$24,999.00", "4.3 out of 5", "12,345 Reviews",
     "1,234 Ratings", "Samsung Galaxy S21 Ultra (Phantom Black, 128 GB)",
     "Obscuretronic Widget", "Sony LG phone", "iphone by apple"}

NormInputs ==
    Strs(NumAlphabet, MaxTextLen) \cup Strs(NameAlphabet, MaxNameLen)
        \cup ExampleTexts

(***************************************************************************)
(* scrapeFlipkartProduct: the parsed document                              *)
(*                                                                         *)
(* A selector either selects no node (Absent) or a first node with a text. *)
(* An image node carries its src and data-src attributes, "" for a missing *)
(* or empty attribute (the code treats both alike).                        *)
(***************************************************************************)
Absent == [exists |-> FALSE, text |-> ""]
Node(t) == [exists |-> TRUE, text |-> t]
Img(src, dataSrc) == [src |-> src, dataSrc |-> dataSrc]

resolution == "832/832"

\* the position of the first occurrence of sub in s at or after i (0 if none)
RECURSIVE IndexFrom(_, _, _)
IndexFrom(s, sub, i) ==
    IF i + Len(sub) - 1 > Len(s) THEN 0
    ELSE IF SubSeq(s, i, i + Len(sub) - 1) = sub THEN i
    ELSE IndexFrom(s, sub, i + 1)

\* s.split(sep)[0]
SplitFirst(s, sep) ==
    LET i == IndexFrom(s, sep, 1)
    IN  IF i = 0 THEN s ELSE SubSeq(s, 1, i - 1)

\* the end of the maximal run of characters of class that starts at i
RECURSIVE ClassRunEnd(_, _, _)
ClassRunEnd(s, i, class) ==
    IF i <= Len(s) /\ Ch(s, i) \in class THEN ClassRunEnd(s, i + 1, class)
    ELSE i - 1

\* the loop over the alternate selectors of a text field, from entry i on:
\* the trimmed text of the first node that exists and has one ("" if none)
RECURSIVE AltText(_, _)
AltText(nodes, i) ==
    IF i > Len(nodes) THEN ""
    ELSE IF nodes[i].exists /\ trim(nodes[i].text) # "" THEN trim(nodes[i].text)
    ELSE AltText(nodes, i + 1)

\* a field that takes the primary node whenever it exists, empty or not
TextFieldNoFallback(primary, alternates) ==
    IF primary.exists THEN trim(primary.text) ELSE AltText(alternates, 1)

\* productName and price: the primary selector, then the alternates
TextField(primary, alternates) ==
    LET first == IF primary.exists THEN trim(primary.text) ELSE ""
    IN  IF first # "" THEN first ELSE AltText(alternates, 1)

\* rating: div.XQDdHH inside div._5OesEi.HDvrBb, cut at "img", then the
\* alternates
RatingField(d) ==
    LET first == IF d.ratingDiv /\ d.ratingSpan.exists
                 THEN SplitFirst(trim(d.ratingSpan.text), "img")
                 ELSE ""
    IN  IF first # "" THEN first ELSE AltText(d.altRating, 1)

\* reviewsText.match(/([\d,]+)\s+Ratings\s*&?\s*([\d,]+)\s+Reviews/) tried
\* at position p: [ok, g1, g2]
CountChars == Digits \cup {","}
NoMatch == [ok |-> FALSE, g1 |-> "", g2 |-> ""]
CountsMatchAt(s, p) ==
    LET a  == ClassRunEnd(s, p, CountChars)
        b  == ClassRunEnd(s, a + 1, Whitespace) + 1
        c  == b + 7
        c2 == ClassRunEnd(s, c, Whitespace) + 1
        c3 == IF c2 <= Len(s) /\ Ch(s, c2) = "&" THEN c2 + 1 ELSE c2
        c4 == ClassRunEnd(s, c3, Whitespace) + 1
        d  == ClassRunEnd(s, c4, CountChars)
        e  == ClassRunEnd(s, d + 1, Whitespace) + 1
    IN  IF /\ a >= p
           /\ b > a + 1
           /\ b + 6 <= Len(s) /\ SubSeq(s, b, b + 6) = "Ratings"
           /\ d >= c4
           /\ e > d + 1
           /\ e + 6 <= Len(s) /\ SubSeq(s, e, e + 6) = "Reviews"
        THEN [ok |-> TRUE, g1 |-> SubSeq(s, p, a), g2 |-> SubSeq(s, c4, d)]
        ELSE NoMatch

RECURSIVE CountsMatchFrom(_, _)
CountsMatchFrom(s, p) ==
    IF p > Len(s) THEN NoMatch
    ELSE IF CountsMatchAt(s, p).ok THEN CountsMatchAt(s, p)
    ELSE CountsMatchFrom(s, p + 1)

CountsMatch(d) ==
    IF d.ratingDiv /\ d.reviewsSpan.exists
    THEN CountsMatchFrom(trim(d.reviewsSpan.text), 1)
    ELSE NoMatch

\* src.replace(/\?.*$/, ''): the text before the first "?"
DropQuery(src) == SplitFirst(src, "?")

\* s with the len characters at position i replaced by new
Splice(s, i, len, new) ==
    SubSeq(s, 1, i - 1) \o new \o SubSeq(s, i + len, Len(s))

\* cleanUrl.replace(/image\/128\/128\//, `image/${resolution}/`)
HighRes128(cleanUrl) ==
    LET i == IndexFrom(cleanUrl, "image/128/128/", 1)
    IN  IF i = 0 THEN cleanUrl
        ELSE Splice(cleanUrl, i, 14, "image/" \o resolution \o "/")

\* the length of a match of /image\/\d+\/\d+\// at position i (0 if none)
ImageDimsLenAt(s, i) ==
    LET a == ClassRunEnd(s, i + 6, Digits)
        b == ClassRunEnd(s, a + 2, Digits)
    IN  IF /\ i + 5 <= Len(s) /\ SubSeq(s, i, i + 5) = "image/"
           /\ a >= i + 6
           /\ a + 1 <= Len(s) /\ Ch(s, a + 1) = "/"
           /\ b >= a + 2
           /\ b + 1 <= Len(s) /\ Ch(s, b + 1) = "/"
        THEN b + 1 - i + 1
        ELSE 0

RECURSIVE ImageDimsFrom(_, _)
ImageDimsFrom(s, i) ==
    IF i > Len(s) THEN 0
    ELSE IF ImageDimsLenAt(s, i) > 0 THEN i
    ELSE ImageDimsFrom(s, i + 1)

\* cleanUrl.replace(/image\/\d+\/\d+\//, `image/${resolution}/`)
HighResAny(cleanUrl) ==
    LET i == ImageDimsFrom(cleanUrl, 1)
    IN  IF i = 0 THEN cleanUrl
        ELSE Splice(cleanUrl, i, ImageDimsLenAt(cleanUrl, i),
                    "image/" \o resolution \o "/")

\* imageTags.each of the gallery, from image i on
RECURSIVE GalleryUrls(_, _)
GalleryUrls(imgs, i) ==
    IF i > Len(imgs) THEN <<>>
    ELSE (IF imgs[i].src # "" THEN <<HighRes128(DropQuery(imgs[i].src))>> ELSE <<>>)
             \o GalleryUrls(imgs, i + 1)

\* images.each of an alternate selector, from image i on
RECURSIVE AltUrls(_, _)
AltUrls(imgs, i) ==
    IF i > Len(imgs) THEN <<>>
    ELSE LET src == IF imgs[i].src # "" THEN imgs[i].src ELSE imgs[i].dataSrc
         IN  (IF src # "" /\ ~includes(src, "placeholder")
              THEN <<HighResAny(DropQuery(src))>> ELSE <<>>)
                 \o AltUrls(imgs, i + 1)

\* the loop over altImageSelectors from entry i on: the first selector that
\* selects any image ends the loop
RECURSIVE AltImages(_, _)
AltImages(alts, i) ==
    IF i > Len(alts) THEN <<>>
    ELSE IF Len(alts[i]) > 0 THEN AltUrls(alts[i], 1)
    ELSE AltImages(alts, i + 1)

\* an image list that keeps its repeats
KeepRepeats(urls) == urls

\* [...new Set(imageUrls)]: first occurrences, in order
RECURSIVE Unique(_)
Unique(urls) ==
    IF Len(urls) = 0 THEN <<>>
    ELSE LET front == Unique(SubSeq(urls, 1, Len(urls) - 1))
             last == urls[Len(urls)]
         IN  IF \E k \in 1..Len(front) : front[k] = last THEN front
             ELSE Append(front, last)

ImageUrls(d) ==
    LET gallery == IF d.gallery.exists THEN GalleryUrls(d.gallery.imgs, 1) ELSE <<>>
        all == IF Len(gallery) = 0 THEN AltImages(d.altImages, 1) ELSE gallery
    IN  Unique(all)

OrNotFound(t) == IF t # "" THEN t ELSE NotFound

scrapeFlipkartProduct(d) ==
    [product_name  |-> OrNotFound(TextField(d.name[1], Tail(d.name))),
     price         |-> OrNotFound(TextField(d.price[1], Tail(d.price))),
     rating        |-> OrNotFound(RatingField(d)),
     ratings_count |-> OrNotFound(CountsMatch(d).g1),
     reviews_count |-> OrNotFound(CountsMatch(d).g2),
     images        |-> ImageUrls(d)]

(***************************************************************************)
(* The documents the scraper is run on                                     *)
(***************************************************************************)
MaxImgs == 2        \* images under the gallery container

RECURSIVE SeqsUpTo(_, _)
SeqsUpTo(S, n) ==
    IF n = 0 THEN {<<>>}
    ELSE LET T == SeqsUpTo(S, n - 1)
         IN  T \cup {Append(t, x) : t \in T, x \in S}

\* what a selector of a text field may select: nothing, a node with no
\* text, a node of blanks, a node with a text of its own
NodeOpts(t) == {Absent, Node(""), Node(" \n "), Node(" " \o t \o " ")}

NameTexts == <<"Apple iPhone 15 (Blue, 128 GB)", "name B", "name C", "name D", "name E">>
PriceTexts == <<"$24,999", "$1,49,900", "$30,000", "$1,30,001", "$999.50">>
AltRatingTexts == <<"4.1", "3.9 *", "0">>

RatingSpanOpts ==
    {Absent, Node(""), Node("4.3"), Node(" 4.5 img "), Node("img"),
     Node("4.3img alt")}
ReviewsSpanOpts ==
    {Absent, Node("1,234 Ratings & 56 Reviews"), Node("12 Ratings 3 Reviews"),
     Node("7 Reviews")}

GallerySrcs ==
    {"", "https://x/placeholder.png",
     "https://x/image/128/128/a.jpg?q=70",
     "https://x/image/128/128/a.jpg?q=90",
     "https://x/image/416/416/b.jpg",
     "https://x/image/128/128/image/128/128/c.jpg",
     "?q=70"}

AltSrc == <<"https://y/image/416/416/p.jpg?q=50", "https://y/image/312/312/q.jpg",
            "https://y/r.jpg?v=1", "https://y/image/128/128/s.jpg">>

\* what an alternate image selector may select
AltImgOpts(i) ==
    {<<>>,
     <<Img("", "")>>,
     <<Img("https://y/placeholder.png", "")>>,
     <<Img(AltSrc[i], "")>>,
     <<Img("", AltSrc[i])>>,
     <<Img("https://y/placeholder.png", ""), Img(AltSrc[i], "")>>}

NoGallery == [exists |-> FALSE, imgs |-> <<>>]
Gallery(imgs) == [exists |-> TRUE, imgs |-> imgs]

BaseDoc ==
    [name        |-> <<Node(NameTexts[1]), Absent, Absent, Absent, Absent>>,
     price       |-> <<Node(PriceTexts[1]), Absent, Absent, Absent, Absent>>,
     ratingDiv   |-> TRUE,
     ratingSpan  |-> Node("4.3"),
     reviewsSpan |-> Node("1,234 Ratings & 56 Reviews"),
     altRating   |-> <<Absent, Absent, Absent>>,
     gallery     |-> Gallery(<<Img("https://x/image/128/128/a.jpg?q=70", "")>>),
     altImages   |-> <<<<>>, <<>>, <<>>, <<>>>>]

\* one choice of NodeOpts for each of the first k selectors of a field
RECURSIVE FieldNodesUpTo(_, _)
FieldNodesUpTo(texts, k) ==
    IF k = 0 THEN {<<>>}
    ELSE {Append(n, x) : n \in FieldNodesUpTo(texts, k - 1), x \in NodeOpts(texts[k])}

FieldNodes(texts) == FieldNodesUpTo(texts, Len(texts))

NameDocs == {[BaseDoc EXCEPT !.name = n] : n \in FieldNodes(NameTexts)}
PriceDocs == {[BaseDoc EXCEPT !.price = n] : n \in FieldNodes(PriceTexts)}
RatingDocs ==
    {[BaseDoc EXCEPT !.ratingDiv = div, !.ratingSpan = r, !.reviewsSpan = v,
                     !.altRating = a] :
        div \in BOOLEAN, r \in RatingSpanOpts, v \in ReviewsSpanOpts,
        a \in FieldNodes(AltRatingTexts)}
GalleryDocs ==
    {[BaseDoc EXCEPT !.gallery = Gallery(g),
                     !.altImages = <<<<>>, <<Img(AltSrc[2], "")>>, <<>>, <<>>>>] :
        g \in SeqsUpTo({Img(u, "") : u \in GallerySrcs}, MaxImgs)}
AltImageDocs ==
    {[BaseDoc EXCEPT !.gallery = g, !.altImages = <<a1, a2, a3, a4>>] :
        g \in {NoGallery, Gallery(<<>>), Gallery(<<Img("", "https://x/d.jpg")>>)},
        a1 \in AltImgOpts(1), a2 \in AltImgOpts(2), a3 \in AltImgOpts(3),
        a4 \in AltImgOpts(4)}

Docs == NameDocs \cup PriceDocs \cup RatingDocs \cup GalleryDocs \cup AltImageDocs

(***************************************************************************)
(* extractVariants (ProductForm)                                           *)
(*                                                                         *)
(* A storage pattern is a sequence of elements: a literal (matched         *)
(* ignoring case, the patterns carry the i flag), a captured \d+, \s*, an  *)
(* optional character, and the negative lookahead (?!\s*RAM).  None of the *)
(* patterns can match in more than one way from a given position, so the   *)
(* elements are matched greedily, left to right.                           *)
(***************************************************************************)
Lit(v) == [t |-> "lit", v |-> v]
NumCap == [t |-> "num", v |-> ""]
Ws == [t |-> "ws", v |-> ""]
Opt(v) == [t |-> "opt", v |-> v]
NotAhead(v) == [t |-> "notAhead", v |-> v]

colorPatterns == <<
    <<"Black", "White", "Blue", "Red", "Green", "Yellow", "Orange", "Purple",
      "Pink", "Gray", "Grey", "Silver", "Gold", "Rose Gold", "Space Gray",
      "Space Grey">>,
    <<"Natural Titanium", "White Titanium", "Black Titanium", "Blue Titanium",
      "Titanium Black", "Titanium Gray", "Titanium Grey", "Titanium White",
      "Titanium Whitesilver">>,
    <<"Mecha Orange", "Lavender Frost", "Pantone Shadow", "Porcelain",
      "Obsidian", "Hazel Beige", "Misty Lavender", "Sonic Black",
      "Eclipse Black">>,
    <<"Starlight", "Midnight", "Product Red", "Deep Purple", "Alpine Green",
      "Sierra Blue", "Graphite", "Pacific Blue">>,
    <<"Dazzle Steel", "Cosmic Black", "Phantom Black", "Phantom Silver",
      "Phantom Violet", "Mystic Bronze">> >>

storagePatterns == <<
    <<Lit("("), NumCap, Ws, Lit("GB"), Ws, Lit("RAM"), Opt(","), Ws, NumCap, Ws,
      Lit("GB"), Ws, Lit("Storag"), Opt("e"), Lit(")")>>,
    <<Lit("("), NumCap, Ws, Lit("GB"), Ws, Lit("+"), Ws, NumCap, Ws, Lit("GB"),
      Lit(")")>>,
    <<NumCap, Ws, Lit("GB"), Ws, Lit("RAM"), Opt(","), Ws, NumCap, Ws, Lit("GB")>>,
    <<Lit("("), NumCap, Ws, Lit("GB"), Lit(")")>>,
    <<NumCap, Ws, Lit("GB"), NotAhead("RAM")>>,
    <<Lit("("), NumCap, Ws, Lit("TB"), Lit(")")>>,
    <<NumCap, Ws, Lit("TB")>> >>

\* pattern.toString().includes('TB')
PatternHasTB(pat) == \E k \in 1..Len(pat) : pat[k] = Lit("TB")

ramOnlyPattern == <<Lit("("), NumCap, Ws, Lit("GB"), Ws, Lit("RAM"), Lit(")")>>

\* \w
WordChars ==
    LowerChars \cup {Ch(UpperCase, i) : i \in 1..26} \cup Digits \cup {"_"}

\* a boundary test that accepts every position
EveryPosition(s, p) == TRUE

\* \b before position p of s
WordBoundary(s, p) ==
    (p > 1 /\ p - 1 <= Len(s) /\ Ch(s, p - 1) \in WordChars)
        # (p <= Len(s) /\ Ch(s, p) \in WordChars)

\* s has v at position p, letter case ignored
LitAt(s, p, v) ==
    /\ p >= 1
    /\ p + Len(v) - 1 <= Len(s)
    /\ toUpperCase(SubSeq(s, p, p + Len(v) - 1)) = toUpperCase(v)

NoRegexMatch == [ok |-> FALSE, caps |-> <<>>, text |-> ""]

\* the elements of pat from k on matched at position p of s
RECURSIVE MatchElems(_, _, _, _, _, _)
MatchElems(s, pat, k, p, start, caps) ==
    IF k > Len(pat)
    THEN [ok |-> TRUE, caps |-> caps, text |-> SubSeq(s, start, p - 1)]
    ELSE LET e == pat[k]
         IN  CASE e.t = "lit" ->
                    IF LitAt(s, p, e.v)
                    THEN MatchElems(s, pat, k + 1, p + Len(e.v), start, caps)
                    ELSE NoRegexMatch
               [] e.t = "num" ->
                    LET a == ClassRunEnd(s, p, Digits)
                    IN  IF a >= p
                        THEN MatchElems(s, pat, k + 1, a + 1, start,
                                        Append(caps, SubSeq(s, p, a)))
                        ELSE NoRegexMatch
               [] e.t = "ws" ->
                    MatchElems(s, pat, k + 1, ClassRunEnd(s, p, Whitespace) + 1,
                               start, caps)
               [] e.t = "opt" ->
                    IF LitAt(s, p, e.v)
                    THEN MatchElems(s, pat, k + 1, p + 1, start, caps)
                    ELSE MatchElems(s, pat, k + 1, p, start, caps)
               [] e.t = "notAhead" ->
                    IF LitAt(s, ClassRunEnd(s, p, Whitespace) + 1, e.v)
                    THEN NoRegexMatch
                    ELSE MatchElems(s, pat, k + 1, p, start, caps)

\* s.match(pat): the leftmost match, from position p on
RECURSIVE RegexMatchFrom(_, _, _)
RegexMatchFrom(s, pat, p) ==
    IF p > Len(s) THEN NoRegexMatch
    ELSE LET m == MatchElems(s, pat, 1, p, p, <<>>)
         IN  IF m.ok THEN m ELSE RegexMatchFrom(s, pat, p + 1)

RegexMatch(s, pat) == RegexMatchFrom(s, pat, 1)

\* the alternatives of a color pattern tried in order at position p: the
\* matched text of s ("" if none matches there)
RECURSIVE ColorAltAt(_, _, _, _)
ColorAltAt(s, alts, k, p) ==
    IF k > Len(alts) THEN ""
    ELSE IF /\ LitAt(s, p, alts[k])
            /\ WordBoundary(s, p)
            /\ WordBoundary(s, p + Len(alts[k]))
         THEN SubSeq(s, p, p + Len(alts[k]) - 1)
         ELSE ColorAltAt(s, alts, k + 1, p)

\* s.match(/\b(a|b|...)\b/i): group 1 of the leftmost match ("" if none)
RECURSIVE ColorMatchFrom(_, _, _)
ColorMatchFrom(s, alts, p) ==
    IF p > Len(s) THEN ""
    ELSE IF ColorAltAt(s, alts, 1, p) # "" THEN ColorAltAt(s, alts, 1, p)
    ELSE ColorMatchFrom(s, alts, p + 1)

\* the color patterns tried from the last declared to the first
RECURSIVE ColorFromLast(_, _)
ColorFromLast(productName, i) ==
    IF i > Len(colorPatterns) THEN ""
    ELSE LET pat == colorPatterns[Len(colorPatterns) + 1 - i]
         IN  IF ColorMatchFrom(productName, pat, 1) # ""
             THEN ColorMatchFrom(productName, pat, 1)
             ELSE ColorFromLast(productName, i + 1)

\* the loop over colorPatterns from pattern i on
RECURSIVE ColorFrom(_, _)
ColorFrom(productName, i) ==
    IF i > Len(colorPatterns) THEN ""
    ELSE IF ColorMatchFrom(productName, colorPatterns[i], 1) # ""
         THEN ColorMatchFrom(productName, colorPatterns[i], 1)
    ELSE ColorFrom(productName, i + 1)

\* the loop over storagePatterns from pattern i on
RECURSIVE StorageFrom(_, _)
StorageFrom(productName, i) ==
    IF i > Len(storagePatterns) THEN ""
    ELSE LET match == RegexMatch(productName, storagePatterns[i])
         IN  IF match.ok /\ Len(match.caps) >= 2
             THEN match.caps[1] \o "GB + " \o match.caps[2] \o "GB"
             ELSE IF match.ok
             THEN match.caps[1] \o " "
                      \o (IF PatternHasTB(storagePatterns[i]) THEN "TB" ELSE "GB")
             ELSE StorageFrom(productName, i + 1)

\* extractVariants without the pass for a RAM-only parenthetical
extractVariantsNoRamPass(productName) ==
    IF productName = "" THEN [color |-> "", storage |-> ""]
    ELSE [color |-> trim(ColorFrom(productName, 1)),
          storage |-> trim(StorageFrom(productName, 1))]

extractVariants(productName) ==
    IF productName = "" THEN [color |-> "", storage |-> ""]
    ELSE LET color == ColorFrom(productName, 1)
             storage == StorageFrom(productName, 1)
             ramOnlyMatch == RegexMatch(productName, ramOnlyPattern)
             merged == IF ramOnlyMatch.ok /\ storage # "" /\ ~includes(storage, "+")
                       THEN ramOnlyMatch.caps[1] \o "GB + " \o storage
                       ELSE storage
         IN  [color |-> trim(color), storage |-> trim(merged)]

(***************************************************************************)
(* POST /api/scrape-product and scrapeProductData                          *)
(***************************************************************************)
\* Math.round(x * 0.85)
Round85(x) == (x * 17 + 10) \div 20

\* scrapedData.images.filter(img => img && img.trim() !== '')
RECURSIVE NonBlank(_)
NonBlank(images) ==
    IF Len(images) = 0 THEN <<>>
    ELSE (IF trim(images[1]) # "" THEN <<images[1]>> ELSE <<>>)
             \o NonBlank(Tail(images))

transformedData(scraped) ==
    [name          |-> scraped.product_name,
     brand         |-> extractBrand(scraped.product_name),
     mrp           |-> parsePrice(scraped.price),
     salePrice     |-> Round85(parsePrice(scraped.price)),
     images        |-> NonBlank(scraped.images),
     averageRating |-> parseRating(scraped.rating),
     totalReviews  |-> parseReviewsCount(scraped.reviews_count)]

\* res.json(transformedData)
Ok(data) == [status |-> 200, json |-> TRUE, error |-> "", data |-> data]

\* res.status(code).json({ error })
Failed(code, error) == [status |-> code, json |-> TRUE, error |-> error, data |-> NoData]

\* the answer of scrapeLimiter: a text, not JSON
Limited ==
    [status |-> 429, json |-> FALSE,
     error |-> "Too many scraping requests, please wait before trying again.",
     data |-> NoData]

\* the answers of the catch block of the route, by the failure of the page
\* fetch
RouteFailures ==
    {Failed(503, "Unable to connect to the website. Please try again later."),
     Failed(429, "Too many requests. Please wait before trying again."),
     Failed(403, "Access denied. The website may be blocking requests."),
     Failed(500, "Failed to scrape product data. Please try again.")}

\* the message of the TypeError of a failed fetch, by browser
FetchErrors == {"Failed to fetch", "Load failed"}

\* the catch block of scrapeProductData
ScrapeServiceError(message) ==
    IF includes(message, "fetch")
    THEN "Unable to connect to scraping service. Make sure the backend server is running on port 3001."
    ELSE message

\* what response.json() throws on a body that is no JSON
JsonSyntaxError == "Unexpected token 'T', \"Too many s\"... is not valid JSON"

(***************************************************************************)
(* ProductForm: handleAutoFill                                             *)
(***************************************************************************)
\* the effect of ImageInputs that adds an input when the last one is filled
AutoAddImageInput(images) ==
    IF Len(images) > 0 /\ images[Len(images)] # "" /\ Len(images) < 10
    THEN Append(images, "")
    ELSE images

\* a final sale price that ignores the slabs
FinalSalePriceFlat(data) == data.salePrice

\* calculatedSalePrice || scrapedData.salePrice
FinalSalePrice(data) ==
    LET calculatedSalePrice == getMRP(data.mrp)
    IN  IF calculatedSalePrice # Null /\ calculatedSalePrice.val # 0
        THEN calculatedSalePrice.val
        ELSE data.salePrice

\* the setFormData of handleAutoFill
AutoFilled(prev, data) ==
    LET variants == extractVariants(data.name)
    IN  [prev EXCEPT
            !.name = data.name,
            !.brand = data.brand,
            !.mrp = IF data.mrp > 0 THEN toString(data.mrp) ELSE prev.mrp,
            !.salePrice = toString(FinalSalePrice(data)),
            !.images = IF Len(data.images) > 0 THEN data.images ELSE <<"">>,
            !.colorVariant = variants.color,
            !.storageVariant = variants.storage]

\* the pages the form is pointed at, and the URLs typed into it
FormDocs ==
    {[BaseDoc EXCEPT !.name = <<n, Absent, Absent, Absent, Absent>>,
                     !.price = <<pr, Absent, Absent, Absent, Absent>>,
                     !.gallery = g] :
        n \in {Absent, Node("Apple iPhone 15 (Blue, 128 GB)"),
               Node("Obscuretronic Widget (8 GB RAM, 1 TB)")},
        pr \in {Absent, Node("$0"), Node("$20,000"), Node("$20,001"), Node("$24,999"),
                Node("$1,30,000"), Node("$1,30,001"), Node("$1,49,900")},
        g \in {NoGallery,
               Gallery(<<Img("https://x/image/128/128/a.jpg?q=70", "")>>),
               Gallery(<<Img("https://x/image/128/128/a.jpg?q=70", ""),
                         Img("https://x/image/128/128/b.jpg", "")>>)}}

Urls == {"", "  ", "https://www.flipkart.com/p/itm1", "https://example.com/p/1"}

(***************************************************************************)
(* Idle values of the state a specification does not use                   *)
(***************************************************************************)
initialFormData ==
    [name |-> "", brand |-> "", mrp |-> "24900", salePrice |-> "498",
     images |-> <<"">>, colorVariant |-> "", storageVariant |-> ""]

CallIdle == fn = "" /\ ret = Null
ScrapeIdle == doc = NoDoc /\ scrapedData = NoData
FormIdle ==
    /\ request = ""
    /\ response = NoResponse
    /\ productUrl = ""
    /\ formData = initialFormData
    /\ isScrapingLoading = FALSE
    /\ scrapingError = ""
\* the useState initial values of App
AppState0 ==
    /\ products = <<>>
    /\ editingProduct = NoProduct
    /\ selectedCategory = ""
    /\ showForm = FALSE
    /\ now = 0
    /\ isLoaded = FALSE
    /\ download = NoFile

AppIdle ==
    /\ AppState0
    /\ localStorage = NoItem

\* the form mounted to add a product of the mobile category
AppFormOpen ==
    /\ products = <<>>
    /\ editingProduct = NoProduct
    /\ selectedCategory = "mobile"
    /\ showForm = TRUE
    /\ now = 0
    /\ isLoaded = TRUE
    /\ localStorage = Stored(<<>>, "mobile")
    /\ download = NoFile

(***************************************************************************)
(* SpecApp: the catalog of App and the product form mounted in it          *)
(*                                                                         *)
(* A product carries the fields the handlers compute; the rating, review   *)
(* count, delivery and stock status, drawn at random for a new product and *)
(* copied on an edit, are left out.  While the form is not mounted its     *)
(* state is kept at the initial values.                                    *)
(***************************************************************************)
MaxProducts == 2    \* products in the catalog
MaxSaves == 2       \* submits of the form
MaxInputs == 3      \* image inputs of the form

NullVariants == [null |-> TRUE, list |-> <<>>]
Variants(list) == [null |-> FALSE, list |-> list]
Variant(type, name) == [type |-> type, name |-> name]

\* Math.round(((mrp - salePrice) / mrp) * 100), mrp > 0
DiscountPercentage(mrp, salePrice) == (200 * (mrp - salePrice) + mrp) \div (2 * mrp)

\* parseInt of a text that starts with digits
parseIntLeading(s) == parseInt(SubSeq(s, 1, DigitRunEnd(s, 1)))

\* (n / 100).toString() for a non-negative integer n
HundredthsToString(n) ==
    toString(n \div 100)
        \o (IF n % 100 = 0 THEN ""
            ELSE "." \o DigitChar((n % 100) \div 10)
                     \o (IF n % 10 = 0 THEN "" ELSE DigitChar(n % 10)))

\* variants?.find(v => v.type === type)?.name || ''
RECURSIVE FindVariant(_, _, _)
FindVariant(list, type, i) ==
    IF i > Len(list) THEN ""
    ELSE IF list[i].type = type THEN list[i].name
    ELSE FindVariant(list, type, i + 1)

\* the initial state of the form, by the product it is mounted with
FormState(editing) ==
    IF editing = NoProduct THEN initialFormData
    ELSE [name |-> editing.name,
          brand |-> editing.brand,
          mrp |-> HundredthsToString(editing.basePrice
                                       * (100 + editing.discountPercentage)),
          salePrice |-> toString(editing.basePrice),
          images |-> editing.images,
          colorVariant |-> IF editing.variants.null THEN ""
                           ELSE FindVariant(editing.variants.list, "color", 1),
          storageVariant |-> IF editing.variants.null THEN ""
                             ELSE FindVariant(editing.variants.list, "storage", 1)]

\* removeDuplicateImages
RECURSIVE removeDuplicateImages(_)
removeDuplicateImages(images) ==
    IF Len(images) = 0 THEN <<>>
    ELSE LET front == removeDuplicateImages(SubSeq(images, 1, Len(images) - 1))
             img == images[Len(images)]
         IN  IF trim(img) # "" /\ \A k \in 1..Len(front) : trim(front[k]) # trim(img)
             THEN Append(front, img)
             ELSE front

\* variants built from the fields for every category
SubmittedVariantsAnyCategory(category, form) ==
    LET variantArray ==
            (IF trim(form.colorVariant) # ""
             THEN <<Variant("color", trim(form.colorVariant))>> ELSE <<>>)
            \o (IF trim(form.storageVariant) # ""
                THEN <<Variant("storage", trim(form.storageVariant))>> ELSE <<>>)
    IN  IF Len(variantArray) > 0 THEN Variants(variantArray) ELSE NullVariants

\* the variants handleSubmit builds
SubmittedVariants(category, form) ==
    IF category = "mobile"
    THEN LET variantArray ==
                 (IF trim(form.colorVariant) # ""
                  THEN <<Variant("color", trim(form.colorVariant))>> ELSE <<>>)
                 \o (IF trim(form.storageVariant) # ""
                     THEN <<Variant("storage", trim(form.storageVariant))>> ELSE <<>>)
         IN  IF Len(variantArray) > 0 THEN Variants(variantArray) ELSE NullVariants
    ELSE NullVariants

\* the product handleSubmit hands to onProductSave
SubmittedProduct(category, editing, form, time) ==
    LET mrpValue == parseIntLeading(form.mrp)
        salePriceValue == parseIntLeading(form.salePrice)
    IN  [id |-> IF editing # NoProduct THEN editing.id
                ELSE category \o "-" \o toString(time),
         name |-> form.name,
         brand |-> form.brand,
         category |-> category,
         basePrice |-> salePriceValue,
         discountPercentage |-> DiscountPercentage(mrpValue, salePriceValue),
         images |-> removeDuplicateImages(form.images),
         variants |-> SubmittedVariants(category, form),
         originalMrp |-> mrpValue]

\* checkDuplicates
HasDuplicateName(existingProducts, editing, form) ==
    \E k \in 1..Len(existingProducts) :
        /\ toUpperCase(trim(existingProducts[k].name)) = toUpperCase(trim(form.name))
        /\ editing = NoProduct \/ existingProducts[k].id # editing.id

\* prev.map(p => p.id === product.id ? product : p)
Replaced(prev, product) ==
    [k \in 1..Len(prev) |-> IF prev[k].id = product.id THEN product ELSE prev[k]]

\* prev.filter(p => p.id !== id)
RECURSIVE Without(_, _)
Without(prev, id) ==
    IF Len(prev) = 0 THEN <<>>
    ELSE (IF prev[1].id # id THEN <<prev[1]>> ELSE <<>>) \o Without(Tail(prev), id)

\* transformImportedData
transformImportedData(importedProducts) ==
    [k \in 1..Len(importedProducts) |->
        LET product == importedProducts[k]
        IN  [id |-> product.id,
             name |-> product.name,
             brand |-> trim(product.brand),
             category |-> product.category,
             basePrice |-> product.salePrice,
             discountPercentage |-> DiscountPercentage(product.mrp, product.salePrice),
             images |-> product.images,
             variants |-> product.variants,
             originalMrp |-> product.mrp]]

\* transformedProducts.filter(p => !existingIds.has(p.id))
RECURSIVE NewProducts(_, _)
NewProducts(prev, transformed) ==
    IF Len(transformed) = 0 THEN <<>>
    ELSE (IF \A k \in 1..Len(prev) : prev[k].id # transformed[1].id
          THEN <<transformed[1]>> ELSE <<>>)
             \o NewProducts(prev, Tail(transformed))

\* the form as it stands after it is mounted with a product: the initial
\* state, then the auto-add effect of ImageInputs
Mounted(editing) ==
    [FormState(editing) EXCEPT !.images = AutoAddImageInput(@)]

\* images.filter((_, i) => i !== index)
RemoveAt(images, index) ==
    SubSeq(images, 1, index - 1) \o SubSeq(images, index + 1, Len(images))

\* what the load effect sets from the stored item
Loaded(item) ==
    IF item.item = "json"
    THEN [products |-> IF item.isArray THEN item.products ELSE <<>>,
          selectedCategory |-> item.selectedCategory]
    ELSE [products |-> <<>>, selectedCategory |-> ""]

\* a save effect that writes whether or not the load has run
SaveEffectAlways(loaded, list, category, item) == Stored(list, category)

\* the save effect of a render with the given isLoaded, products and
\* selectedCategory: the item it leaves in the storage
SaveEffect(loaded, list, category, item) ==
    IF loaded THEN Stored(list, category) ELSE item

\* products.filter(p => p.category === selectedCategory)
RECURSIVE OfCategory(_, _)
OfCategory(list, category) ==
    IF Len(list) = 0 THEN <<>>
    ELSE (IF list[1].category = category THEN <<list[1]>> ELSE <<>>)
             \o OfCategory(Tail(list), category)

\* the product handleExport and handleExportAll write
ExportProduct(product) ==
    [id |-> product.id,
     name |-> product.name,
     brand |-> product.brand,
     category |-> product.category,
     mrp |-> IF product.originalMrp # 0 THEN product.originalMrp
             ELSE (product.basePrice * (100 + product.discountPercentage) + 50)
                      \div 100,
     salePrice |-> product.basePrice,
     images |-> product.images,
     variants |-> product.variants]

exportProducts(list) == [k \in 1..Len(list) |-> ExportProduct(list[k])]

(***************************************************************************)
(* SpecSlab: getMRP applied to a price                                     *)
(***************************************************************************)
InitSlab ==
    /\ arg \in PriceInputs
    /\ CallIdle
    /\ ScrapeIdle
    /\ FormIdle
    /\ AppIdle

CallGetMRP ==
    /\ fn = ""
    /\ fn' = "getMRP"
    /\ ret' = getMRP(arg)
    /\ UNCHANGED <<appVars, arg, scrapeVars, formVars>>

NextSlab == CallGetMRP

SpecSlab == InitSlab /\ [][NextSlab]_vars

InitNorm ==
    /\ arg \in NormInputs
    /\ CallIdle
    /\ ScrapeIdle
    /\ FormIdle
    /\ AppIdle

CallParsePrice ==
    /\ fn = ""
    /\ fn' = "parsePrice"
    /\ ret' = parsePrice(arg)
    /\ UNCHANGED <<appVars, arg, scrapeVars, formVars>>

CallParseRating ==
    /\ fn = ""
    /\ fn' = "parseRating"
    /\ ret' = parseRating(arg)
    /\ UNCHANGED <<appVars, arg, scrapeVars, formVars>>

CallParseReviewsCount ==
    /\ fn = ""
    /\ fn' = "parseReviewsCount"
    /\ ret' = parseReviewsCount(arg)
    /\ UNCHANGED <<appVars, arg, scrapeVars, formVars>>

\* the route calls extractBrand with the product name of the scraper, a
\* trimmed text or the sentinel
CallExtractBrand ==
    /\ fn = ""
    /\ arg = trim(arg)
    /\ fn' = "extractBrand"
    /\ ret' = extractBrand(arg)
    /\ UNCHANGED <<appVars, arg, scrapeVars, formVars>>

NextNorm ==
    \/ CallParsePrice
    \/ CallParseRating
    \/ CallParseReviewsCount
    \/ CallExtractBrand

SpecNorm == InitNorm /\ [][NextNorm]_vars

(***************************************************************************)
(* What the claims say of a text, stated over positions                    *)
(***************************************************************************)
HasDigit(s) == \E i \in 1..Len(s) : Ch(s, i) \in Digits

\* positions i..j hold the first maximal run of digits of s
FirstRun(s, i, j) ==
    /\ i <= j
    /\ \A k \in i..j : Ch(s, k) \in Digits
    /\ \A k \in 1..(i - 1) : Ch(s, k) \notin Digits
    /\ j = Len(s) \/ Ch(s, j + 1) \notin Digits

\* the digits of s in order, every other character dropped
DigitsOnly(s) ==
    LET P == {i \in 1..Len(s) : Ch(s, i) \in Digits}
        RECURSIVE Build(_)
        Build(k) == IF k = 0 THEN ""
                    ELSE Build(k - 1) \o (IF k \in P THEN Ch(s, k) ELSE "")
    IN  Build(Len(s))

C4_NoDigitGivesZero ==
    (fn = "parsePrice" /\ ~HasDigit(arg)) => ret = 0

C4_Witness ==
    /\ fn = "parsePrice"
    /\ arg = NotFound
    /\ ret = 0

C6_ReviewsCount ==
    fn = "parseReviewsCount" =>
        LET t == RemoveChars(arg, {","})
        IN  /\ HasDigit(arg) =>
                \E i \in 1..Len(t) : \E j \in i..Len(t) :
                    FirstRun(t, i, j) /\ ret = parseInt(SubSeq(t, i, j))
            /\ ~HasDigit(arg) => ret = 1000
            /\ arg = "12,345 Reviews" => ret = 12345
            /\ ret >= 0

C6_Witness ==
    /\ fn = "parseReviewsCount"
    /\ arg = "12,345 Reviews"
    /\ ret = 12345

\* b occurs in s, letter case ignored
ContainsIgnoringCase(s, b) ==
    \E p \in 1..(Len(s) - Len(b) + 1) :
        \A k \in 1..Len(b) : UpperCh(Ch(s, p + k - 1)) = UpperCh(Ch(b, k))

\* C7: extractBrand gives, for every name, the first token of the catalog,
\* in catalog order, that the name contains ignoring case; when there is
\* none, the first whitespace-delimited token of the name; "Unknown" for
\* the empty name.
C7_BrandOrFirstToken ==
    fn = "extractBrand" =>
        /\ arg = "" => ret = "Unknown"
        /\ \A i \in 1..Len(commonBrands) :
              (/\ ContainsIgnoringCase(arg, commonBrands[i])
               /\ \A j \in 1..(i - 1) : ~ContainsIgnoringCase(arg, commonBrands[j]))
                  => ret = commonBrands[i]
        /\ (\A i \in 1..Len(commonBrands) : ~ContainsIgnoringCase(arg, commonBrands[i]))
              => \A i \in 1..Len(arg) : \A j \in i..Len(arg) :
                    (/\ \A k \in 1..(i - 1) : Ch(arg, k) \in Whitespace
                     /\ \A k \in i..j : Ch(arg, k) \notin Whitespace
                     /\ j = Len(arg) \/ Ch(arg, j + 1) \in Whitespace)
                        => ret = SubSeq(arg, i, j)
        /\ arg = "Samsung Galaxy S21 Ultra (Phantom Black, 128 GB)" => ret = "Samsung"
        /\ arg = "Obscuretronic Widget" => ret = "Obscuretronic"

(***************************************************************************)
(* SpecScrape: scrapeFlipkartProduct run on a document                     *)
(***************************************************************************)
InitScrape ==
    /\ doc \in Docs
    /\ scrapedData = NoData
    /\ arg = 0
    /\ CallIdle
    /\ FormIdle
    /\ AppIdle

Scrape ==
    /\ scrapedData = NoData
    /\ scrapedData' = scrapeFlipkartProduct(doc)
    /\ UNCHANGED <<appVars, doc, callVars, formVars>>

NextScrape == Scrape

SpecScrape == InitScrape /\ [][NextScrape]_vars

\* a strategy matches: its node exists and its trimmed text is not empty
Matches(n) == n.exists /\ \E k \in 1..Len(n.text) : Ch(n.text, k) \notin Whitespace

\* v is the trimmed text of the first strategy of nodes that matches, the
\* sentinel if none does
FirstMatch(nodes, v) ==
    \/ \E i \in 1..Len(nodes) :
          /\ Matches(nodes[i])
          /\ \A j \in 1..(i - 1) : ~Matches(nodes[j])
          /\ v = trim(nodes[i].text)
    \/ /\ \A i \in 1..Len(nodes) : ~Matches(nodes[i])
       /\ v = NotFound

\* the node of the primary rating strategy
RatingNode(d) == IF d.ratingDiv THEN d.ratingSpan ELSE Absent

\* cut is the part of t before its first "img" (all of t if it has none)
BeforeImg(t, cut) ==
    \E k \in 0..Len(t) :
        /\ cut = SubSeq(t, 1, k)
        /\ \A q \in 1..k : q + 2 <= Len(t) => SubSeq(t, q, q + 2) # "img"
        /\ \/ k = Len(t)
           \/ k + 3 <= Len(t) /\ SubSeq(t, k + 1, k + 3) = "img"

FullyPopulated(r) ==
    /\ r.product_name # "" /\ r.price # "" /\ r.rating # ""
    /\ r.ratings_count # "" /\ r.reviews_count # ""
    /\ Len(r.images) >= 0

\* C8: for each of name, price and rating the strategies are evaluated in
\* order and the field is the trimmed text of the first strategy whose node
\* exists and whose trimmed text is not empty, "Not found" if there is
\* none; every text field of the result is a string, images a sequence.
C8_FirstStrategyText ==
    scrapedData # NoData =>
        /\ FirstMatch(doc.name, scrapedData.product_name)
        /\ FirstMatch(doc.price, scrapedData.price)
        /\ FirstMatch(<<RatingNode(doc)>> \o doc.altRating, scrapedData.rating)
        /\ FullyPopulated(scrapedData)

\* C8 as amended: as above for name and price; for rating the primary
\* strategy yields the part of its trimmed text before the first "img" and
\* matches when that part is not empty, otherwise the alternates are
\* evaluated as above.
C8_RatingCutAtImg ==
    scrapedData # NoData =>
        /\ FirstMatch(doc.name, scrapedData.product_name)
        /\ FirstMatch(doc.price, scrapedData.price)
        /\ \/ /\ RatingNode(doc).exists
              /\ BeforeImg(trim(RatingNode(doc).text), scrapedData.rating)
              /\ scrapedData.rating # ""
           \/ /\ ~RatingNode(doc).exists
                    \/ BeforeImg(trim(RatingNode(doc).text), "")
              /\ FirstMatch(doc.altRating, scrapedData.rating)
        /\ FullyPopulated(scrapedData)

C8_Witness ==
    /\ scrapedData # NoData
    /\ doc.name[1].exists /\ ~Matches(doc.name[1])
    /\ ~doc.name[2].exists
    /\ scrapedData.product_name = "name C"

\* C9: no URL of the returned images derives from a source that contains
\* "placeholder", in the gallery tier as in the alternate tier.
C9_NoPlaceholder ==
    scrapedData # NoData =>
        \A k \in 1..Len(scrapedData.images) :
            \A q \in 1..(Len(scrapedData.images[k]) - 10) :
                SubSeq(scrapedData.images[k], q, q + 10) # "placeholder"

\* an image of an alternate selector with a source that is no placeholder
Usable(img) ==
    LET src == IF img.src # "" THEN img.src ELSE img.dataSrc
    IN  src # "" /\ \A q \in 1..(Len(src) - 10) : SubSeq(src, q, q + 10) # "placeholder"

Yields(imgs) == \E k \in 1..Len(imgs) : Usable(imgs[k])

\* C10: when the gallery yields no image, the images come from the first
\* alternate selector, in declared order, that yields at least one image
\* with a source that is no placeholder; an earlier alternate that selects
\* only placeholders or images without a source does not end the search.
C10_FirstYieldingAlternate ==
    (/\ scrapedData # NoData
     /\ ~doc.gallery.exists \/ \A k \in 1..Len(doc.gallery.imgs) : doc.gallery.imgs[k].src = "")
        => \/ \E i \in 1..Len(doc.altImages) :
                /\ Yields(doc.altImages[i])
                /\ \A j \in 1..(i - 1) : ~Yields(doc.altImages[j])
                /\ scrapedData.images = Unique(AltUrls(doc.altImages[i], 1))
           \/ /\ \A i \in 1..Len(doc.altImages) : ~Yields(doc.altImages[i])
              /\ scrapedData.images = <<>>

\* a /<digits>/<digits>/ path segment of s starts at position i
DimsSegmentAt(s, i) ==
    LET a == ClassRunEnd(s, i + 1, Digits)
        b == ClassRunEnd(s, a + 2, Digits)
    IN  /\ Ch(s, i) = "/"
        /\ a >= i + 1
        /\ a + 1 <= Len(s) /\ Ch(s, a + 1) = "/"
        /\ b >= a + 2
        /\ b + 1 <= Len(s) /\ Ch(s, b + 1) = "/"

\* C11: every returned image URL, of the gallery tier as of the alternate
\* tier, holds no "?" (the source is cut at its first "?"), and its
\* /<digits>/<digits>/ resolution segment is the target resolution
\* /832/832/, whatever the digits of the segment of the source were.
C11_AnyDimsReplaced ==
    scrapedData # NoData =>
        \A k \in 1..Len(scrapedData.images) :
            LET u == scrapedData.images[k]
            IN  /\ \A q \in 1..Len(u) : Ch(u, q) # "?"
                /\ \A i \in 1..Len(u) :
                      (DimsSegmentAt(u, i) /\ \A j \in 1..(i - 1) : ~DimsSegmentAt(u, j))
                          => /\ i + Len(resolution) + 1 <= Len(u)
                             /\ SubSeq(u, i, i + Len(resolution) + 1)
                                    = "/" \o resolution \o "/"

\* the normalized URLs of the tier the images are taken from, repeats kept
TierUrls(d) ==
    LET gallery == IF d.gallery.exists THEN GalleryUrls(d.gallery.imgs, 1) ELSE <<>>
    IN  IF Len(gallery) = 0 THEN AltImages(d.altImages, 1) ELSE gallery

\* the position of the first occurrence of u in urls
FirstAt(urls, u) == CHOOSE i \in 1..Len(urls) :
                        urls[i] = u /\ \A j \in 1..(i - 1) : urls[j] # u

AsImgs(urls) == [k \in 1..Len(urls) |-> Img(urls[k], "")]

\* the gallery tier yields the images of d
GalleryTier(d) ==
    d.gallery.exists /\ \E k \in 1..Len(d.gallery.imgs) : d.gallery.imgs[k].src # ""

\* C13: image normalization is idempotent: the per-URL normalization and
\* the deduplication of the tier the images came from, applied to the
\* returned images as sources, return the same images.
C13_Idempotent ==
    scrapedData # NoData =>
        LET images == scrapedData.images
        IN  IF GalleryTier(doc)
            THEN Unique(GalleryUrls(AsImgs(images), 1)) = images
            ELSE Unique(AltUrls(AsImgs(images), 1)) = images

(***************************************************************************)
(* SpecVariants: extractVariants applied to a product name                 *)
(*                                                                         *)
(* The names are put together from a storage part, an optional RAM-only    *)
(* parenthetical before or after it, and a color part.  A storage part is  *)
(* written with the RAM and size it states and the text a storage-only     *)
(* part stands for on its own.                                             *)
(***************************************************************************)
Combined(text, ram, size) ==
    [text |-> text, kind |-> "combined", ram |-> ram, size |-> size, alone |-> ""]
StorageOnly(text, alone) ==
    [text |-> text, kind |-> "storage", ram |-> "", size |-> "", alone |-> alone]

\* combined parts in parentheses or with the word RAM
CombinedParts ==
    {Combined("(8 GB RAM, 128 GB Storage)", "8", "128"),
     Combined("(12GB RAM 256GB storage)", "12", "256"),
     Combined("(8 GB + 128 GB)", "8", "128"),
     Combined("(6GB+64GB)", "6", "64"),
     Combined("6 GB RAM, 64 GB", "6", "64"),
     Combined("(8 GB RAM, 128 GB)", "8", "128")}

\* combined parts written bare with a plus sign
BarePlusParts ==
    {Combined("8GB+128GB", "8", "128"), Combined("6 GB + 64 GB", "6", "64")}

StorageOnlyParts ==
    {StorageOnly("(128 GB)", "128 GB"), StorageOnly("256GB", "256 GB"),
     StorageOnly("64 gb", "64 GB"), StorageOnly("(1 TB)", "1 TB"),
     StorageOnly("2TB", "2 TB")}

NoStorage == StorageOnly("", "")

StorageParts == CombinedParts \cup BarePlusParts \cup StorageOnlyParts \cup {NoStorage}

RamOnly == "(4 GB RAM)"
RamParts == {"", RamOnly}

\* a color part, with the color the declared order gives it
ColorPart(text, color) == [text |-> text, color |-> color]

ColorParts ==
    {ColorPart("", ""), ColorPart("Blue", "Blue"), ColorPart("Redmi", ""),
     ColorPart("Phantom Black", "Black"), ColorPart("Titanium Black", "Black"),
     ColorPart("Product Red", "Red"), ColorPart("midnight", "midnight"),
     ColorPart("Mystic Bronze", "Mystic Bronze")}

Sp(t) == IF t = "" THEN "" ELSE " " \o t

Compose(ramBefore, storage, ramAfter, color) ==
    "Phone X" \o Sp(ramBefore) \o Sp(storage) \o Sp(ramAfter)
        \o (IF color = "" THEN "" ELSE " - " \o color)

ComposedNames ==
    {Compose(rb, st.text, ra, c.text) :
        rb \in RamParts, st \in StorageParts, ra \in RamParts, c \in ColorParts}

\* names with two storage parts, and the names the form is known to meet
TwoPartNames ==
    {"Phone X (256 GB) (8 GB RAM, 128 GB Storage)",
     "Phone X 2TB 6 GB RAM, 64 GB",
     "Phone X 1TB (128 GB)",
     "Phone X 512GB (256 GB)"}

KnownNames ==
    {"", NotFound, "iPhone 15 (128 GB) - Blue",
     "Samsung Galaxy S21 Ultra (Phantom Black, 128 GB)",
     "Obscuretronic Widget"}

VariantNames == ComposedNames \cup TwoPartNames \cup KnownNames

InitVariants ==
    /\ arg \in VariantNames
    /\ CallIdle
    /\ ScrapeIdle
    /\ FormIdle
    /\ AppIdle

CallExtractVariants ==
    /\ fn = ""
    /\ fn' = "extractVariants"
    /\ ret' = extractVariants(arg)
    /\ UNCHANGED <<appVars, arg, scrapeVars, formVars>>

NextVariants == CallExtractVariants

SpecVariants == InitVariants /\ [][NextVariants]_vars

\* C14: when the name holds a combined RAM + storage part, in parentheses
\* or bare ("(8 GB RAM, 128 GB Storage)", "(8 GB + 128 GB)", bare
\* "8GB+128GB"), the storage is "{ram}GB + {storage}GB", and a combined part
\* wins over a storage-only GB or TB part of the same name.
C14_CombinedFormat ==
    fn = "extractVariants" =>
        /\ \A st \in CombinedParts \cup BarePlusParts :
           \A rb \in RamParts : \A ra \in RamParts : \A c \in ColorParts :
              arg = Compose(rb, st.text, ra, c.text)
                  => ret.storage = st.ram \o "GB + " \o st.size \o "GB"
        /\ arg = "Phone X (256 GB) (8 GB RAM, 128 GB Storage)"
              => ret.storage = "8GB + 128GB"
        /\ arg = "Phone X 2TB 6 GB RAM, 64 GB" => ret.storage = "6GB + 64GB"

\* C15: when the storage comes from a storage-only part (GB or TB) and a
\* RAM-only parenthetical "(N GB RAM)" stands in the name, before or after
\* the storage part, the storage is "{N}GB + {storage}"; when the storage
\* comes from a combined part, or no storage is found, the pass changes
\* nothing.
C15_RamOnlyMerged ==
    fn = "extractVariants" =>
        \A rb \in RamParts : \A ra \in RamParts : \A c \in ColorParts :
            /\ \A st \in StorageOnlyParts :
                  arg = Compose(rb, st.text, ra, c.text)
                      => ret.storage = IF rb = "" /\ ra = "" THEN st.alone
                                       ELSE "4GB + " \o st.alone
            /\ \A st \in CombinedParts :
                  arg = Compose(rb, st.text, ra, c.text)
                      => ret.storage = st.ram \o "GB + " \o st.size \o "GB"
            /\ arg = Compose(rb, "", ra, c.text) => ret.storage = ""

C15_Witness ==
    /\ fn = "extractVariants"
    /\ arg = "Phone X (4 GB RAM) (128 GB) - Blue"
    /\ ret.storage = "4GB + 128 GB"

\* C16: for color and for storage the patterns are tried in declared order
\* and the first pattern that matches gives the result: a name with a named
\* finish that includes a general color word ("Phantom Black", "Titanium
\* Black", "Product Red") gives the general color of the earlier pattern,
\* and a storage part of an earlier pattern wins over one of a later
\* pattern that stands before it in the name.
C16_DeclaredOrder ==
    fn = "extractVariants" =>
        /\ \A rb \in RamParts : \A ra \in RamParts :
           \A st \in StorageParts : \A c \in ColorParts :
              arg = Compose(rb, st.text, ra, c.text) => ret.color = c.color
        /\ arg = "Samsung Galaxy S21 Ultra (Phantom Black, 128 GB)"
              => ret.color = "Black"
        /\ arg = "Phone X 1TB (128 GB)" => ret.storage = "128 GB"
        /\ arg = "Phone X 512GB (256 GB)" => ret.storage = "256 GB"
        /\ arg = "Phone X 2TB 6 GB RAM, 64 GB" => ret.storage = "6GB + 64GB"

C16_Witness ==
    /\ fn = "extractVariants"
    /\ arg = "Samsung Galaxy S21 Ultra (Phantom Black, 128 GB)"
    /\ ret.color = "Black"

\* C17: "iPhone 15 (128 GB) - Blue" gives color "Blue" and storage
\* "128 GB"; a name with no color token gives color "", a name with no GB or
\* TB token gives storage "", the empty name gives both; the result always
\* is a record of two texts.
C17_ExampleAndEmpty ==
    fn = "extractVariants" =>
        /\ arg = "iPhone 15 (128 GB) - Blue"
              => ret = [color |-> "Blue", storage |-> "128 GB"]
        /\ arg = "" => ret = [color |-> "", storage |-> ""]
        /\ (\A i \in 1..Len(colorPatterns) : \A k \in 1..Len(colorPatterns[i]) :
               ~ContainsIgnoringCase(arg, colorPatterns[i][k]))
              => ret.color = ""
        /\ (~ContainsIgnoringCase(arg, "GB") /\ ~ContainsIgnoringCase(arg, "TB"))
              => ret.storage = ""
        /\ \A rb \in RamParts : \A ra \in RamParts : \A c \in ColorParts :
              (c.color = "" /\ arg = Compose(rb, "", ra, c.text))
                  => ret = [color |-> "", storage |-> ""]
        /\ DOMAIN ret = {"color", "storage"}
        /\ ret.color \in STRING /\ ret.storage \in STRING

C17_Witness ==
    /\ fn = "extractVariants"
    /\ arg = "iPhone 15 (128 GB) - Blue"
    /\ ret = [color |-> "Blue", storage |-> "128 GB"]

(***************************************************************************)
(* Spec: the product form auto-filled through the scrape route             *)
(***************************************************************************)
Init ==
    /\ doc \in FormDocs
    /\ scrapedData = NoData
    /\ arg = 0
    /\ CallIdle
    /\ FormIdle
    /\ AppFormOpen

\* onChange of the URL input, disabled while loading
SetProductUrl(u) ==
    /\ ~isScrapingLoading
    /\ u # productUrl
    /\ productUrl' = u
    /\ UNCHANGED <<appVars, callVars, scrapeVars, request, response, formData,
                   isScrapingLoading, scrapingError>>

\* a click on Auto-fill (disabled while loading or with a blank URL): the
\* part of handleAutoFill before the await
HandleAutoFill ==
    /\ ~isScrapingLoading
    /\ trim(productUrl) # ""
    /\ IF trim(productUrl) = ""
       THEN /\ scrapingError' = "Please enter a product URL"
            /\ UNCHANGED <<appVars, request, response, isScrapingLoading>>
       ELSE /\ isScrapingLoading' = TRUE
            /\ scrapingError' = ""
            /\ request' = productUrl
            /\ response' = NoResponse
    /\ UNCHANGED <<appVars, callVars, scrapeVars, productUrl, formData>>

\* a catch block that also resets the form
RejectedClearsForm(message) ==
    /\ scrapingError' = message
    /\ isScrapingLoading' = FALSE
    /\ request' = ""
    /\ response' = NoResponse
    /\ formData' = initialFormData
    /\ UNCHANGED <<appVars, callVars, scrapeVars, productUrl>>

\* a catch block with no finally: the loading flag is left as it is
RejectedKeepsLoading(message) ==
    /\ scrapingError' = message
    /\ request' = ""
    /\ response' = NoResponse
    /\ UNCHANGED <<appVars, callVars, scrapeVars, productUrl, formData,
                   isScrapingLoading>>

\* the catch and finally blocks of handleAutoFill
Rejected(message) ==
    /\ scrapingError' = message
    /\ isScrapingLoading' = FALSE
    /\ request' = ""
    /\ response' = NoResponse
    /\ UNCHANGED <<appVars, callVars, scrapeVars, productUrl, formData>>

\* scrapeProductData throws on a URL that is not of flipkart.com
InvalidUrl ==
    /\ request # ""
    /\ ~includes(request, "flipkart.com")
    /\ Rejected(ScrapeServiceError("Please provide a valid Flipkart product URL"))

\* fetch throws: the scraping service cannot be reached
FetchThrows ==
    /\ request # ""
    /\ includes(request, "flipkart.com")
    /\ response = NoResponse
    /\ \E m \in FetchErrors : Rejected(ScrapeServiceError(m))

\* the route is reached
Routed ==
    /\ request # ""
    /\ includes(request, "flipkart.com")
    /\ response = NoResponse

RouteLimited ==
    /\ Routed
    /\ response' = Limited
    /\ UNCHANGED <<appVars, callVars, scrapeVars, request, productUrl, formData,
                   isScrapingLoading, scrapingError>>

\* the page fetch of scrapeFlipkartProduct fails
RouteFails ==
    /\ Routed
    /\ response' \in RouteFailures
    /\ UNCHANGED <<appVars, callVars, scrapeVars, request, productUrl, formData,
                   isScrapingLoading, scrapingError>>

RouteScrapes ==
    /\ Routed
    /\ scrapedData' = scrapeFlipkartProduct(doc)
    /\ response' = Ok(transformedData(scrapedData'))
    /\ UNCHANGED <<appVars, callVars, doc, request, productUrl, formData,
                   isScrapingLoading, scrapingError>>

\* the route answered with an error: response.ok is false
AutoFillFails ==
    /\ request # ""
    /\ response # NoResponse
    /\ response.status # 200
    /\ Rejected(IF ~response.json THEN JsonSyntaxError
                ELSE IF response.error # "" THEN response.error
                ELSE "HTTP error! status: " \o toString(response.status))

\* the route answered with a record: the form is filled
AutoFillSucceeds ==
    /\ request # ""
    /\ response # NoResponse
    /\ response.status = 200
    /\ formData' = [AutoFilled(formData, response.data) EXCEPT
                       !.images = AutoAddImageInput(@)]
    /\ scrapingError' = ""
    /\ isScrapingLoading' = FALSE
    /\ request' = ""
    /\ response' = NoResponse
    /\ UNCHANGED <<appVars, callVars, scrapeVars, productUrl>>

Next ==
    \/ \E u \in Urls : SetProductUrl(u)
    \/ HandleAutoFill
    \/ InvalidUrl
    \/ FetchThrows
    \/ RouteLimited
    \/ RouteFails
    \/ RouteScrapes
    \/ AutoFillFails
    \/ AutoFillSucceeds

Spec == Init /\ [][Next]_vars

\* C2: in handleAutoFill, when getMRP(mrp) signals unsupported (mrp above
\* the last ceiling) the sale price written to the form is the flat
\* fallback round(mrp * 0.85) and the auto-fill completes with no error;
\* when getMRP(mrp) returns a slab price, the slab price is written.
C2_SlabOrFlatFallback ==
    [][(request # "" /\ response.status = 200 /\ request' = "") =>
          LET mrp == response.data.mrp
              sale == parseInt(formData'.salePrice)
          IN  /\ toString(sale) = formData'.salePrice
              /\ mrp > 130000 =>
                    (85 * mrp - 50 < 100 * sale /\ 100 * sale <= 85 * mrp + 50)
              /\ \A i \in 1..Len(slabs) :
                    (mrp <= slabs[i][1] /\ \A j \in 1..(i - 1) : slabs[j][1] < mrp)
                        => sale = slabs[i][2]
              /\ scrapingError' = ""
              /\ isScrapingLoading' = FALSE
              /\ formData'.name = response.data.name]_vars

C2_Witness ==
    /\ request = ""
    /\ ~isScrapingLoading
    /\ scrapingError = ""
    /\ formData.mrp = "149900"
    /\ formData.salePrice = "127415"


\* C18: whenever the scrape request fails (the URL is rejected, fetch
\* throws, or the route answers with a status other than 200, the answers
\* 503/429/403/500 for a failed page fetch included), no product record
\* comes back, handleAutoFill leaves every form field as it was, the error
\* shown is not empty and the loading flag is cleared.
C18_FailureLeavesForm ==
    [][(request # "" /\ request' = "" /\ response.status # 200) =>
          /\ response.data = NoData
          /\ formData' = formData
          /\ scrapingError' # ""
          /\ isScrapingLoading' = FALSE]_vars

C18_Witness ==
    /\ request = ""
    /\ ~isScrapingLoading
    /\ formData.name = "Apple iPhone 15 (Blue, 128 GB)"
    /\ formData.salePrice = "249"
    /\ scrapingError = "Access denied. The website may be blocking requests."


\* the price handleAutoFill derives from an MRP: the slab price, or the
\* flat 85% when the resolver signals unsupported
DerivedPrice(mrp) ==
    IF getMRP(mrp) # Null THEN getMRP(mrp).val ELSE Round85(mrp)

\* C26: after every successful auto-fill, also one whose record has no
\* price (mrp = 0), the sale price shown in the form is the price derived
\* (slab price, or the 85% fallback) from the MRP shown in the form.
C26_SalePriceFromShownMrp ==
    [][(request # "" /\ response.status = 200 /\ request' = "") =>
          formData'.salePrice = toString(DerivedPrice(parseInt(formData'.mrp)))]_vars

Categories == {"mobile", "cloth"}

\* what is typed into the form: the required fields and, for the mobile
\* category, the variant fields
FormInputs ==
    {<<"name", "A">>, <<"brand", "Acme">>, <<"colorVariant", "Blue ">>,
     <<"storageVariant", "128 GB">>, <<"storageVariant", " ">>}

VariantFields == {"colorVariant", "storageVariant"}

Imported(id, name, category, variants) ==
    [id |-> id, name |-> name, brand |-> " Acme ", category |-> category,
     mrp |-> 1000, salePrice |-> 850, images |-> <<"https://x/a.jpg">>,
     variants |-> variants]

\* a file with one product of the cloth category (MRP 1000, sale price
\* 800) that has variants and lists an image URL twice
ClothFile ==
    <<[Imported("p2", "Imp 2", "cloth", Variants(<<Variant("color", "Red")>>))
          EXCEPT !.salePrice = 800,
                 !.images = <<"https://x/a.jpg", "https://x/a.jpg">>]>>

\* the files handed to the import: the cloth file, and a file that lists
\* an id twice
ImportFiles ==
    {ClothFile,
     <<Imported("p3", "Imp 3", "mobile", NullVariants),
       Imported("p3", "Imp 3 again", "mobile", NullVariants)>>}

\* what is typed into an image input
ImageInputValues == {"https://x/a.jpg"}

\* what the storage holds when the App is mounted: nothing, a text that
\* does not parse, an object whose products member is no array, and the
\* catalog an earlier session saved
StoredItems ==
    {NoItem, NotJson, Json(FALSE, <<>>, "mobile"),
     Stored(transformImportedData(ClothFile), "cloth")}

InitApp ==
    /\ arg = 0
    /\ CallIdle
    /\ ScrapeIdle
    /\ FormIdle
    /\ AppState0
    /\ localStorage \in StoredItems

\* the first commit of App: the load effect, then the save effect of the
\* first render (isLoaded false, the initial products and category)
LoadEffect ==
    /\ ~isLoaded
    /\ products' = Loaded(localStorage).products
    /\ selectedCategory' = Loaded(localStorage).selectedCategory
    /\ isLoaded' = TRUE
    /\ localStorage' = SaveEffect(isLoaded, products, selectedCategory, localStorage)
    /\ UNCHANGED <<editingProduct, showForm, now, download, formData,
                   callVars, scrapeVars, fillVars>>

\* the commit that follows the load: the save effect of a render with
\* isLoaded true
SaveEffectAfterLoad ==
    /\ isLoaded
    /\ localStorage # Stored(products, selectedCategory)
    /\ localStorage' = SaveEffect(isLoaded, products, selectedCategory, localStorage)
    /\ UNCHANGED <<products, editingProduct, selectedCategory, showForm, now,
                   isLoaded, download, formData, callVars, scrapeVars, fillVars>>

\* the effects of App have run: the handlers can be reached
Settled == isLoaded /\ localStorage = Stored(products, selectedCategory)

\* the save effect of the render that follows a handler; the step writes
\* no file
Rendered ==
    /\ localStorage' = SaveEffect(isLoaded, products', selectedCategory', localStorage)
    /\ download' = NoFile
    /\ UNCHANGED isLoaded

HandleCategorySelect(category) ==
    /\ Settled
    /\ selectedCategory' = category
    /\ showForm' = FALSE
    /\ editingProduct' = NoProduct
    /\ formData' = initialFormData
    /\ UNCHANGED <<products, now, callVars, scrapeVars, fillVars>>
    /\ Rendered

\* the Add Product / Cancel Edit button
ToggleForm ==
    /\ Settled
    /\ selectedCategory # ""
    /\ showForm' = ~showForm
    /\ editingProduct' = NoProduct
    /\ formData' = initialFormData
    /\ UNCHANGED <<products, selectedCategory, now, callVars, scrapeVars, fillVars>>
    /\ Rendered

HandleInputChange(field, value) ==
    /\ Settled
    /\ showForm
    /\ field \in VariantFields => selectedCategory = "mobile"
    /\ formData[field] # value
    /\ formData' = [formData EXCEPT ![field] = value]
    /\ UNCHANGED <<products, editingProduct, selectedCategory, showForm, now,
                   callVars, scrapeVars, fillVars>>
    /\ Rendered

\* handleImageChange of ImageInputs, with the auto-add effect that follows
HandleImageChange(index, value) ==
    /\ Settled
    /\ showForm
    /\ formData.images[index] # value
    /\ LET newImages == AutoAddImageInput([formData.images EXCEPT ![index] = value])
       IN  /\ Len(newImages) <= MaxInputs
           /\ formData' = [formData EXCEPT !.images = newImages]
    /\ UNCHANGED <<products, editingProduct, selectedCategory, showForm, now,
                   callVars, scrapeVars, fillVars>>
    /\ Rendered

\* removeImageInput, offered while there is more than one input, with the
\* auto-add effect that follows
RemoveImageInput(index) ==
    /\ Settled
    /\ showForm
    /\ Len(formData.images) > 1
    /\ formData' = [formData EXCEPT
                       !.images = AutoAddImageInput(RemoveAt(@, index))]
    /\ formData' # formData
    /\ UNCHANGED <<products, editingProduct, selectedCategory, showForm, now,
                   callVars, scrapeVars, fillVars>>
    /\ Rendered

\* handleSubmit with the handleProductSave it calls; the required inputs
\* are filled and checkDuplicates finds no other product of the name
HandleSubmit ==
    /\ Settled
    /\ showForm
    /\ formData.name # "" /\ formData.brand # ""
    /\ formData.mrp # "" /\ formData.salePrice # ""
    /\ ~HasDuplicateName(products, editingProduct, formData)
    /\ now < MaxSaves
    /\ now' = now + 1
    /\ LET product == SubmittedProduct(selectedCategory, editingProduct, formData, now')
       IN  /\ editingProduct = NoProduct => Len(products) < MaxProducts
           /\ products' = IF editingProduct # NoProduct
                          THEN Replaced(products, product)
                          ELSE Append(products, product)
    /\ editingProduct' = NoProduct
    /\ showForm' = FALSE
    /\ formData' = initialFormData
    /\ UNCHANGED <<selectedCategory, callVars, scrapeVars, fillVars>>
    /\ Rendered

\* Edit on a product of the list: a form that is mounted keeps its state
HandleProductEdit(k) ==
    /\ Settled
    /\ selectedCategory # ""
    /\ products[k].category = selectedCategory
    /\ editingProduct' = products[k]
    /\ selectedCategory' = products[k].category
    /\ showForm' = TRUE
    /\ formData' = IF showForm THEN formData ELSE Mounted(products[k])
    /\ UNCHANGED <<products, now, callVars, scrapeVars, fillVars>>
    /\ Rendered

HandleCancelEdit ==
    /\ Settled
    /\ showForm
    /\ editingProduct # NoProduct
    /\ editingProduct' = NoProduct
    /\ showForm' = FALSE
    /\ formData' = initialFormData
    /\ UNCHANGED <<products, selectedCategory, now, callVars, scrapeVars, fillVars>>
    /\ Rendered

\* Delete on a product of the list, confirmed
HandleProductDelete(k) ==
    /\ Settled
    /\ selectedCategory # ""
    /\ products[k].category = selectedCategory
    /\ products' = Without(products, products[k].id)
    /\ UNCHANGED <<editingProduct, selectedCategory, showForm, now, formData,
                   callVars, scrapeVars, fillVars>>
    /\ Rendered

\* a JSON file with a products array is imported
HandleFileChange(file) ==
    /\ Settled
    /\ selectedCategory # ""
    /\ LET merged == products \o NewProducts(products, transformImportedData(file))
       IN  /\ Len(merged) <= MaxProducts
           /\ merged # products
           /\ products' = merged
    /\ UNCHANGED <<editingProduct, selectedCategory, showForm, now, formData,
                   callVars, scrapeVars, fillVars>>
    /\ Rendered

\* Export of the selected category, offered while it has products
HandleExport ==
    /\ Settled
    /\ selectedCategory # ""
    /\ OfCategory(products, selectedCategory) # <<>>
    /\ download' = [name |-> selectedCategory \o "-products.json",
                    products |-> exportProducts(OfCategory(products, selectedCategory))]
    /\ UNCHANGED <<products, editingProduct, selectedCategory, showForm, now,
                   isLoaded, localStorage, formData, callVars, scrapeVars, fillVars>>

\* Export All Categories, offered while the catalog has products
HandleExportAll ==
    /\ Settled
    /\ products # <<>>
    /\ download' = [name |-> "all-products.json",
                    products |-> exportProducts(products)]
    /\ UNCHANGED <<products, editingProduct, selectedCategory, showForm, now,
                   isLoaded, localStorage, formData, callVars, scrapeVars, fillVars>>

NextApp ==
    \/ LoadEffect
    \/ SaveEffectAfterLoad
    \/ \E category \in Categories : HandleCategorySelect(category)
    \/ ToggleForm
    \/ \E input \in FormInputs : HandleInputChange(input[1], input[2])
    \/ \E index \in 1..Len(formData.images) : \E value \in ImageInputValues :
          HandleImageChange(index, value)
    \/ \E index \in 1..Len(formData.images) : RemoveImageInput(index)
    \/ HandleSubmit
    \/ \E k \in 1..Len(products) : HandleProductEdit(k)
    \/ HandleCancelEdit
    \/ \E k \in 1..Len(products) : HandleProductDelete(k)
    \/ \E file \in ImportFiles : HandleFileChange(file)
    \/ HandleExport
    \/ HandleExportAll

SpecApp == InitApp /\ [][NextApp]_vars

\* the product a step of handleSubmit wrote to the catalog
Saved(before, after, editing) ==
    IF editing = NoProduct THEN after[Len(after)]
    ELSE CHOOSE p \in {after[k] : k \in 1..Len(after)} : p.id = editing.id

\* C19: a product saved through handleSubmit with a category other than
\* "mobile" has variants = null, whatever the color and storage fields
\* hold; for "mobile" the variants are null when both trimmed fields are
\* empty, and otherwise hold the non-empty ones, color before storage.
C19_VariantsOnlyForMobile ==
    [][(showForm /\ ~showForm' /\ products' # products) =>
          LET v == Saved(products, products', editingProduct).variants
              color == trim(formData.colorVariant)
              storage == trim(formData.storageVariant)
          IN  /\ selectedCategory # "mobile" => v = NullVariants
              /\ selectedCategory = "mobile" =>
                    /\ v.null <=> (color = "" /\ storage = "")
                    /\ v.null => v.list = <<>>
                    /\ (\E i \in 1..Len(v.list) : v.list[i] = Variant("color", color))
                          <=> color # ""
                    /\ (\E i \in 1..Len(v.list) : v.list[i] = Variant("storage", storage))
                          <=> storage # ""
                    /\ Len(v.list) = (IF color # "" THEN 1 ELSE 0)
                                        + (IF storage # "" THEN 1 ELSE 0)
                    /\ \A i \in 1..Len(v.list) : \A j \in 1..Len(v.list) :
                          (v.list[i].type = "color" /\ v.list[j].type = "storage")
                              => i < j]_vars

\* a cloth product that came with variants was edited and saved
C19_Witness ==
    \E k \in 1..Len(products) :
        /\ products[k].id = "p2"
        /\ products[k].category = "cloth"
        /\ products[k].name = "A"
        /\ products[k].variants = NullVariants

\* C20: after any sequence of save, edit, delete and import, no two
\* products of the catalog have the same id, also when an imported file
\* lists an id twice.
C20_UniqueIds ==
    \A i \in 1..Len(products) : \A j \in 1..Len(products) :
        i # j => products[i].id # products[j].id

\* C21: every product written by handleExport or handleExportAll, for
\* every catalog reachable by save, edit and import, has an images list
\* in which no URL is repeated.
C21_ExportedImagesDistinct ==
    \A k \in 1..Len(download.products) :
        LET images == download.products[k].images
        IN  \A i \in 1..Len(images) : \A j \in 1..Len(images) :
                i # j => images[i] # images[j]

\* C22: the storage is written only by a render that has isLoaded true:
\* the step of the load effect leaves the stored item as it is and takes
\* over the products and the category of a stored catalog, and after every
\* later step that changes products or selectedCategory the stored item
\* is the JSON of the current products and category.
C22_PersistenceOrdering ==
    /\ [][localStorage' # localStorage => isLoaded]_vars
    /\ [][(~isLoaded /\ isLoaded') =>
              /\ localStorage' = localStorage
              /\ (localStorage.item = "json" /\ localStorage.isArray) =>
                    /\ products' = localStorage.products
                    /\ selectedCategory' = localStorage.selectedCategory]_vars
    /\ [][(isLoaded /\ <<products, selectedCategory>>' # <<products, selectedCategory>>) =>
              localStorage' = Stored(products', selectedCategory')]_vars
    /\ [](~isLoaded => products = <<>> /\ selectedCategory = "")

\* a stored catalog was loaded, a product was added in another category,
\* and the storage holds both
C22_Witness ==
    /\ isLoaded
    /\ Len(products) = 2
    /\ products[1].id = "p2"
    /\ products[2].id = "mobile-1"
    /\ selectedCategory = "mobile"
    /\ localStorage = Stored(products, "mobile")

\* C23: submitting the form of a saved product (positive MRP and sale
\* price) that was opened for edit and not modified leaves the product's
\* basePrice, discountPercentage and originalMrp as they were.
C23_UnchangedEditIsNoOp ==
    [][(/\ now' # now
        /\ editingProduct # NoProduct
        /\ formData = Mounted(editingProduct)
        /\ editingProduct.basePrice > 0
        /\ editingProduct.originalMrp > 0
        /\ \E k \in 1..Len(products) : products[k] = editingProduct) =>
          \A k \in 1..Len(products') :
              products'[k].id = editingProduct.id =>
                  /\ products'[k].basePrice = editingProduct.basePrice
                  /\ products'[k].discountPercentage = editingProduct.discountPercentage
                  /\ products'[k].originalMrp = editingProduct.originalMrp]_vars

\* C24: whenever handleProductSave is invoked with a product, the catalog
\* afterwards contains that product, also when the product being edited
\* was deleted from the list while the edit form was open.
C24_SavedEditKept ==
    [][now' # now =>
          \E k \in 1..Len(products') :
              products'[k] = SubmittedProduct(selectedCategory, editingProduct,
                                              formData, now')]_vars

\* C25: after handleProductEdit(p) the form's name, brand, sale price,
\* images and variant fields are those of p, also when the form was
\* already open at the moment Edit was clicked.
C25_FormShowsEdited ==
    [][(editingProduct' # editingProduct /\ editingProduct' # NoProduct) =>
          LET p == Mounted(editingProduct')
          IN  /\ formData'.name = p.name
              /\ formData'.brand = p.brand
              /\ formData'.salePrice = p.salePrice
              /\ formData'.images = p.images
              /\ formData'.colorVariant = p.colorVariant
              /\ formData'.storageVariant = p.storageVariant]_vars

\* C28: in every state of the mounted form (new product, after add and
\* remove of inputs, editing any saved product, also one saved with no
\* image URL) the images list of the form is not empty.
C28_AtLeastOneImageInput ==
    showForm => Len(formData.images) >= 1

====
